---- MODULE Spec2Model ----
(***************************************************************************)
(* fishy: `update` reconciles the schemas of schema.toml against the log   *)
(* of signed operations recorded in the lock file and appends the commits  *)
(* it signs; the model follows src/src/commands/update.rs.                 *)
(***************************************************************************)
EXTENDS Naturals, Sequences, FiniteSets, TLC

(* ------------------------------ bounds -------------------------------- *)

\* Number of invocations of the tool a behaviour may hold.
MaxRuns == 2

\* Number of distinct key pairs KeyPair::new() may draw.
NumKeys == 2

(* ----------------------------- basic data ----------------------------- *)

None == <<>>

Some(x) == <<x>>

Range(s) == {s[i] : i \in 1..Len(s)}

IsPrefix(s, t) == Len(s) <= Len(t) /\ SubSeq(t, 1, Len(s)) = s

\* The key stored in the private key file (secret.txt).
FileKey == <<"file_key", 0>>

\* The key pairs KeyPair::new() can generate.
RandomKeys == {<<"random_key", i>> : i \in 1..NumKeys}

SchemaDefinition == "schema_definition_v1"

SchemaFieldDefinition == "schema_field_definition_v1"

SystemSchemas == {SchemaDefinition, SchemaFieldDefinition}

\* The content hash of an encoded entry: collision free, so the digest
\* stands for exactly the entry it was computed from.
Hash(entry) == [digest |-> entry]

\* SchemaId::new_application(name, view_id)
new_application(name, view_id) == [name |-> name, view_id |-> view_id]

\* A field type as p2panda records it: a scalar kind, or a relation kind
\* with the application schema id it points to.
PandaFieldType(kind, schema) == [kind |-> kind, schema |-> schema]

\* OperationBuilder::new(schema_id).action(..).previous(..).fields(..).build()
Operation(schema_id, action, previous, fields) ==
    [schema_id |-> schema_id, action |-> action,
     previous |-> previous, fields |-> fields]

\* Commit::new
Commit(entry, operation) ==
    [entry_hash |-> Hash(entry), entry |-> entry, operation |-> operation]

\* LockFile::new
LockFile(commits) == [version |-> 1, commits |-> commits]

(* --------------------------- the log store ---------------------------- *)
(* The store is the sequence of entries published to it, each carrying     *)
(* its operation as payload.                                                *)

EntryByHash(store, hash) == CHOOSE e \in Range(store) : Hash(e) = hash

HasEntry(store, hash) == \E e \in Range(store) : Hash(e) = hash

RECURSIVE DocumentId(_, _)
\* The document an entry belongs to: the hash of the CREATE entry its
\* chain of `previous` links leads to.
DocumentId(store, entry) ==
    IF entry.payload.previous = None
    THEN Hash(entry)
    ELSE DocumentId(store, EntryByHash(store, entry.payload.previous[1]))

\* The positions of the entries of one author's log of one document.
LogEntries(store, public_key, document_id) ==
    {i \in 1..Len(store) :
        /\ store[i].public_key = public_key
        /\ DocumentId(store, store[i]) = document_id}

AuthorLogs(store, public_key) ==
    {store[i].log_id : i \in {j \in 1..Len(store) : store[j].public_key = public_key}}

SetMax(S) == CHOOSE m \in S : \A n \in S : n <= m

\* next_args: the log id, sequence number and backlink the next entry of
\* `public_key` on the document of `previous` must carry.
\* The arguments of the first entry of a new log of `public_key`.
new_log_args(store, public_key) ==
    [log_id |-> Cardinality(AuthorLogs(store, public_key)),
     seq_num |-> 1, backlink |-> None]

\* The arguments of the entry that follows `last` in its log.
following_args(last) ==
    [log_id |-> last.log_id, seq_num |-> last.seq_num + 1,
     backlink |-> Some(Hash(last))]

\* The arguments for the log whose entries of `public_key` are at `mine`.
log_args(store, public_key, mine) ==
    IF mine = {}
    THEN new_log_args(store, public_key)
    ELSE following_args(store[SetMax(mine)])

\* next_args: the log id, sequence number and backlink the next entry of
\* `public_key` on the document of `previous` must carry.
next_args(store, public_key, previous) ==
    IF previous = None
    THEN new_log_args(store, public_key)
    ELSE log_args(store, public_key,
             LogEntries(store, public_key,
                 DocumentId(store, EntryByHash(store, previous[1]))))

\* sign_and_encode_entry
Entry(public_key, args, operation) ==
    [public_key |-> public_key, log_id |-> args.log_id,
     seq_num |-> args.seq_num, backlink |-> args.backlink,
     payload |-> operation]

\* publish accepts an entry whose operation points to a known view and
\* whose log id, sequence number and backlink are the expected ones.
publish_ok(store, entry) ==
    /\ entry.payload.schema_id \in SystemSchemas
    /\ ~HasEntry(store, Hash(entry))
    /\ entry.payload.previous # None => HasEntry(store, entry.payload.previous[1])
    /\ Entry(entry.public_key,
             next_args(store, entry.public_key, entry.payload.previous),
             entry.payload) = entry

publish(store, entry) == Append(store, entry)

\* send_to_store: next_args, sign, publish; returns the encoded entry.
send_to_store(store, operation, key_pair) ==
    Entry(key_pair, next_args(store, key_pair, operation.previous), operation)

(* ------------------------- materialized views ------------------------- *)

Merge(f, g) ==
    [k \in DOMAIN f \cup DOMAIN g |-> IF k \in DOMAIN g THEN g[k] ELSE f[k]]

RECURSIVE OperationChain(_, _)
\* The entries from a document's CREATE to the entry with `hash`, along
\* the `previous` links.
OperationChain(store, hash) ==
    IF EntryByHash(store, hash).payload.previous = None
    THEN <<EntryByHash(store, hash)>>
    ELSE Append(OperationChain(store,
                    EntryByHash(store, hash).payload.previous[1]),
                EntryByHash(store, hash))

RECURSIVE FoldFields(_, _, _)
\* The fields of a document after entries[i..] were applied to `acc`.
FoldFields(entries, i, acc) ==
    IF i > Len(entries)
    THEN acc
    ELSE FoldFields(entries, i + 1, Merge(acc, entries[i].payload.fields))

\* DocumentStore::get_document_by_view_id: the view of a document at
\* `view_id`, its operations up to that one applied in order.
view_of(view_id, ops) ==
    [view_id |-> view_id, fields |-> FoldFields(ops, 2, ops[1].payload.fields)]

DocumentView(store, view_id) == view_of(view_id, OperationChain(store, view_id))

\* The latest view of a document: the view at its last operation that no
\* other operation follows.
DocumentTips(store, document_id) ==
    {i \in 1..Len(store) :
        /\ DocumentId(store, store[i]) = document_id
        /\ \A j \in 1..Len(store) :
               store[j].payload.previous # Some(Hash(store[i]))}

LatestView(store, document_id) ==
    DocumentView(store, Hash(store[SetMax(DocumentTips(store, document_id))]))

\* DocumentStore::get_documents_by_schema: the latest view of every
\* document of the schema.
get_documents_by_schema(store, schema_id) ==
    {LatestView(store, Hash(store[i])) :
        i \in {j \in 1..Len(store) :
                 /\ store[j].payload.previous = None
                 /\ store[j].payload.schema_id = schema_id}}

\* SchemaView::try_from(document_view)
SchemaView(view) ==
    [view_id |-> view.view_id, name |-> view.fields.name,
     description |-> view.fields.description, fields |-> view.fields.fields]

\* SchemaFieldView::try_from(document_view)
SchemaFieldView(view) ==
    [id |-> view.view_id, name |-> view.fields.name,
     field_type |-> view.fields.type]

(* ---------------------------- the executor ----------------------------- *)
(* An executor holds the store, the signing key and the commits signed so  *)
(* far.  `requests` counts the sign requests made of it; `fail_after` is   *)
(* None when every request succeeds, and Some(k) when the request made     *)
(* after k others fails.                                                    *)

Executor(store, key_pair, fail_after) ==
    [store |-> store, key_pair |-> key_pair, commits |-> << >>,
     requests |-> 0, fail_after |-> fail_after]

Ok(value, executor) == [ok |-> TRUE, value |-> value, executor |-> executor]

Err(executor) == [ok |-> FALSE, value |-> None, executor |-> executor]

\* Variant of signed_entry: the commit is put before the earlier ones.
signed_entry_prepended(executor, operation, encoded_entry) ==
    Ok(Hash(encoded_entry),
       [executor EXCEPT
           !.store = publish(@, encoded_entry),
           !.requests = @ + 1,
           !.commits = <<Commit(encoded_entry, operation)>> \o @])

\* Executor::sign, once send_to_store returned the encoded entry.
signed_entry(executor, operation, encoded_entry) ==
    Ok(Hash(encoded_entry),
       [executor EXCEPT
           !.store = publish(@, encoded_entry),
           !.requests = @ + 1,
           !.commits = Append(@, Commit(encoded_entry, operation))])

\* Executor::sign
sign(executor, operation) ==
    IF executor.fail_after = Some(executor.requests)
    THEN Err([executor EXCEPT !.requests = @ + 1])
    ELSE signed_entry(executor, operation,
             send_to_store(executor.store, operation, executor.key_pair))

\* FieldTypePlan::Field(field_type)
FieldTypePlanField(kind) == [kind |-> kind, schema_plan |-> None]

\* FieldTypePlan::Relation(relation, schema_plan)
FieldTypePlanRelation(kind, schema_plan) ==
    [kind |-> kind, schema_plan |-> Some(schema_plan)]

FieldPlan(name, current, field_type) ==
    [name |-> name, current |-> current, field_type |-> field_type]

SchemaPlan(name, current, description, fields) ==
    [name |-> name, current |-> current, description |-> description,
     fields |-> fields]

\* Variant of FieldOperation: an existing field is updated whether or not
\* its type differs.
FieldOperation_without_comparison(self, field_type) ==
    IF self.current = None
    THEN Some(Operation(SchemaFieldDefinition, "create", None,
                        [name |-> self.name, type |-> field_type]))
    ELSE Some(Operation(SchemaFieldDefinition, "update",
                        Some(self.current[1].id),
                        [type |-> field_type]))

\* Variant of FieldOperation: the UPDATE carries the name as well.
FieldOperation_update_with_name(self, field_type) ==
    IF self.current = None
    THEN Some(Operation(SchemaFieldDefinition, "create", None,
                        [name |-> self.name, type |-> field_type]))
    ELSE IF self.current[1].field_type # field_type
         THEN Some(Operation(SchemaFieldDefinition, "update",
                             Some(self.current[1].id),
                             [name |-> self.name, type |-> field_type]))
         ELSE None

\* The operation a field plan decides on, None for no operation.
FieldOperation(self, field_type) ==
    IF self.current = None
    THEN Some(Operation(SchemaFieldDefinition, "create", None,
                        [name |-> self.name, type |-> field_type]))
    ELSE IF self.current[1].field_type # field_type
         THEN Some(Operation(SchemaFieldDefinition, "update",
                             Some(self.current[1].id),
                             [type |-> field_type]))
         ELSE None

\* The attributes of a schema UPDATE: the name, and what differs.
SchemaUpdateFields(self, current, schema_fields) ==
    LET name == [name |-> self.name]
        description == IF self.description # current.description
                       THEN [description |-> self.description]
                       ELSE << >>
        fields == IF current.fields # schema_fields
                  THEN [fields |-> schema_fields]
                  ELSE << >>
    IN  Merge(Merge(name, description), fields)

\* The operation a schema plan decides on once its fields are executed.
SchemaOperation(self, schema_fields) ==
    IF self.current = None
    THEN Some(Operation(SchemaDefinition, "create", None,
                        [name |-> self.name,
                         description |-> self.description,
                         fields |-> schema_fields]))
    ELSE IF \/ self.description # self.current[1].description
            \/ self.current[1].fields # schema_fields
         THEN Some(Operation(SchemaDefinition, "update",
                             Some(self.current[1].view_id),
                             SchemaUpdateFields(self, self.current[1],
                                                schema_fields)))
         ELSE None

\* Variant of field_type_of: a relation to a schema that exists embeds
\* the view id the schema had before it was executed.
field_type_of_stale(self, target_view_id) ==
    PandaFieldType(
        self.field_type.kind,
        IF self.field_type.schema_plan # None
        THEN Some(new_application(
                 self.field_type.schema_plan[1].name,
                 IF self.field_type.schema_plan[1].current # None
                 THEN self.field_type.schema_plan[1].current[1].view_id
                 ELSE target_view_id))
        ELSE None)

\* The type FieldPlan::execute records for the field: for a relation, the
\* schema id made of the target's name and the view id it returned.
field_type_of(self, target_view_id) ==
    PandaFieldType(
        self.field_type.kind,
        IF self.field_type.schema_plan # None
        THEN Some(new_application(self.field_type.schema_plan[1].name,
                                  target_view_id))
        ELSE None)

\* Variant of execute_field_operation: the current view id is handed on
\* whenever there is one, also after an UPDATE was signed.
execute_field_operation_stale(self, operation, executor) ==
    IF operation # None
    THEN IF self.current = None
         THEN sign(executor, operation[1])
         ELSE Ok(self.current[1].id, sign(executor, operation[1]).executor)
    ELSE Ok(self.current[1].id, executor)

\* FieldPlan::execute, lines 105-141: sign the operation decided on, or
\* hand on the current view id.
execute_field_operation(self, operation, executor) ==
    IF operation # None
    THEN sign(executor, operation[1])
    ELSE Ok(self.current[1].id, executor)

\* FieldPlan::execute once the target of a relation was executed.
execute_field(self, target) ==
    IF ~target.ok
    THEN target
    ELSE execute_field_operation(
             self, FieldOperation(self, field_type_of(self, target.value)),
             target.executor)

\* SchemaPlan::execute, lines 205-214.
execute_schema_operation(self, operation, executor) ==
    IF operation # None
    THEN sign(executor, operation[1])
    ELSE Ok(self.current[1].view_id, executor)

\* SchemaPlan::execute once its fields were executed.
execute_schema(self, fields) ==
    IF ~fields.ok
    THEN fields
    ELSE execute_schema_operation(
             self, SchemaOperation(self, fields.value), fields.executor)

RECURSIVE FieldPlan_execute(_, _)
RECURSIVE SchemaPlan_execute(_, _)
RECURSIVE execute_fields(_, _, _, _)
RECURSIVE next_field(_, _, _, _)

\* impl Executable for FieldPlan
FieldPlan_execute(self, executor) ==
    execute_field(
        self,
        IF self.field_type.schema_plan # None
        THEN SchemaPlan_execute(self.field_type.schema_plan[1], executor)
        ELSE Ok(None, executor))

\* Variant of next_field: the loop goes on after a field failed.
next_field_continuing(fields, i, schema_fields, field) ==
    execute_fields(fields, i + 1, Append(schema_fields, field.value),
                   field.executor)

\* The body of the loop of SchemaPlan::execute, for the executed field i.
next_field(fields, i, schema_fields, field) ==
    IF ~field.ok
    THEN field
    ELSE execute_fields(fields, i + 1, Append(schema_fields, field.value),
                        field.executor)

\* Variant of execute_fields: the loop ends one field early.
execute_fields_one_short(fields, i, schema_fields, executor) ==
    IF i >= Len(fields)
    THEN Ok(schema_fields, executor)
    ELSE next_field(fields, i, schema_fields,
                    FieldPlan_execute(fields[i], executor))

\* The loop of SchemaPlan::execute over its fields.
execute_fields(fields, i, schema_fields, executor) ==
    IF i > Len(fields)
    THEN Ok(schema_fields, executor)
    ELSE next_field(fields, i, schema_fields,
                    FieldPlan_execute(fields[i], executor))

\* impl Executable for SchemaPlan
SchemaPlan_execute(self, executor) ==
    execute_schema(self, execute_fields(self.fields, 1, << >>, executor))

(* --------------------------- materialization -------------------------- *)

\* update, "GET THE CURRENT SCHEMAS": one (schema view, field views) per
\* schema definition document, keyed by schema name.
schema_entry(store, document_view) ==
    [schema_view |-> SchemaView(document_view),
     field_views |->
         [i \in 1..Len(document_view.fields.fields) |->
             SchemaFieldView(
                 DocumentView(store, document_view.fields.fields[i]))]]

schema_names(documents) == {SchemaView(d).name : d \in documents}

\* Variant of insert_schemas: a schema of the same name is replaced.
insert_schemas_replacing(store, documents) ==
    [ok |-> TRUE,
     value |->
         [n \in schema_names(documents) |->
             schema_entry(store,
                 CHOOSE d \in documents : SchemaView(d).name = n)]]

\* The map built from the documents; not ok when two have the same name.
insert_schemas(store, documents) ==
    [ok |-> Cardinality(schema_names(documents)) = Cardinality(documents),
     value |->
         [n \in schema_names(documents) |->
             schema_entry(store,
                 CHOOSE d \in documents : SchemaView(d).name = n)]]

built_schemas_of(store) ==
    insert_schemas(store, get_documents_by_schema(store, SchemaDefinition))

built_of(store, built) ==
    [ok |-> built.ok, store |-> store, value |-> built.value]

RECURSIVE replay(_, _, _)
\* Variant of replay: a commit the store rejects is left out.
replay_skipping(store, commits, i) ==
    IF i > Len(commits)
    THEN [ok |-> TRUE, store |-> store]
    ELSE IF ~publish_ok(store, commits[i].entry)
         THEN replay(store, commits, i + 1)
         ELSE replay(publish(store, commits[i].entry), commits, i + 1)

\* update, the loop publishing the lock file's commits to the store.
replay(store, commits, i) ==
    IF i > Len(commits)
    THEN [ok |-> TRUE, store |-> store]
    ELSE IF ~publish_ok(store, commits[i].entry)
         THEN [ok |-> FALSE, store |-> store]
         ELSE replay(publish(store, commits[i].entry), commits, i + 1)

\* update, lines 391-428, on the store the replay left.
materialize_store(replayed) ==
    IF ~replayed.ok
    THEN [ok |-> FALSE, store |-> replayed.store, value |-> << >>]
    ELSE built_of(replayed.store, built_schemas_of(replayed.store))

\* update, lines 361-428: replay, then build the current schemas.
materialize(commits) == materialize_store(replay(<< >>, commits, 1))

(* -------------------------------- do_it ------------------------------- *)

\* current.get(&schema_name).and_then(|schema| Some(schema.1.clone()))
schema_current(current, schema_name) ==
    IF schema_name \in DOMAIN current
    THEN Some(current[schema_name].schema_view)
    ELSE None

\* current.get(&schema_name).and_then(|schema| schema.2.iter().find(..))
schema_field(current, schema_name, field_name) ==
    IF schema_name \notin DOMAIN current
    THEN None
    ELSE LET views == current[schema_name].field_views
             hits == {i \in 1..Len(views) : views[i].name = field_name}
         IN  IF hits = {}
             THEN None
             ELSE Some(views[CHOOSE i \in hits : \A j \in hits : i <= j])

\* The plan do_it builds for schema_a.
plan_schema_a(current) ==
    SchemaPlan("schema_a", schema_current(current, "schema_a"), "test",
        << FieldPlan("a", schema_field(current, "schema_a", "a"),
                     FieldTypePlanField("str")),
           FieldPlan("b", schema_field(current, "schema_a", "b"),
                     FieldTypePlanField("int")),
           FieldPlan("c", schema_field(current, "schema_a", "c"),
                     FieldTypePlanField("float")) >>)

\* Variant of plan_schema_b: the relation field d comes last.
plan_schema_b_relation_last(current) ==
    SchemaPlan("schema_b", schema_current(current, "schema_b"), "testt",
        << FieldPlan("e", schema_field(current, "schema_b", "e"),
                     FieldTypePlanField("bool")),
           FieldPlan("f", schema_field(current, "schema_b", "f"),
                     FieldTypePlanField("bool")),
           FieldPlan("d", schema_field(current, "schema_b", "d"),
                     FieldTypePlanRelation("relation_list",
                                           plan_schema_a(current))) >>)

\* The plan do_it builds for schema_b, whose field d relates to schema_a.
plan_schema_b(current) ==
    SchemaPlan("schema_b", schema_current(current, "schema_b"), "testt",
        << FieldPlan("d", schema_field(current, "schema_b", "d"),
                     FieldTypePlanRelation("relation_list",
                                           plan_schema_a(current))),
           FieldPlan("e", schema_field(current, "schema_b", "e"),
                     FieldTypePlanField("bool")),
           FieldPlan("f", schema_field(current, "schema_b", "f"),
                     FieldTypePlanField("bool")) >>)

\* Variant of do_it_result: the error of the execution is dropped and the
\* commits signed before it are returned.
do_it_result_partial(result) ==
    [ok |-> TRUE, commits |-> result.executor.commits,
     store |-> result.executor.store,
     requests |-> result.executor.requests]

\* do_it: builds the plans from `current`, executes schema_b with a new
\* executor and returns its commits; `planned` is not read.
do_it_result(result) ==
    [ok |-> result.ok, commits |-> result.executor.commits,
     store |-> result.executor.store,
     requests |-> result.executor.requests]

do_it(current, planned, store, key_pair, fail_after) ==
    do_it_result(SchemaPlan_execute(plan_schema_b(current),
                                    Executor(store, key_pair, fail_after)))

(* -------------------------------- files ------------------------------- *)

Paths == {"schema.lock", "other.lock"}

Absent == [kind |-> "absent", version |-> None, commits |-> << >>]

\* Content toml cannot parse as a lock file: an empty file, or text cut
\* before the version key or inside a commit.
Garbled == [kind |-> "garbled", version |-> None, commits |-> << >>]

\* toml::to_string_pretty(&lock_file) below the header comment.
render_lock(lock_file) ==
    [kind |-> "text", version |-> Some(lock_file.version),
     commits |-> lock_file.commits]

\* Variant of read_lock: an unparsable file is an empty lock file too.
read_lock_permissive(file) ==
    IF file.kind = "text" /\ file.version # None
    THEN [ok |-> TRUE,
          value |-> [version |-> file.version[1], commits |-> file.commits]]
    ELSE [ok |-> TRUE, value |-> LockFile(<< >>)]

\* fs::read_to_string + toml::from_str as update uses them: an unreadable
\* file is an empty lock file, an unparsable one is an error.
read_lock(file) ==
    IF file.kind = "absent"
    THEN [ok |-> TRUE, value |-> LockFile(<< >>)]
    ELSE IF file.kind = "text" /\ file.version # None
         THEN [ok |-> TRUE,
               value |-> [version |-> file.version[1], commits |-> file.commits]]
         ELSE [ok |-> FALSE, value |-> LockFile(<< >>)]

\* What a write_all that fails partway can leave of `file`: text that no
\* longer parses, or text cut right after one of its commits.
partial_writes(file) ==
    {Garbled} \cup
    {[file EXCEPT !.commits = SubSeq(file.commits, 1, k)] :
        k \in 1..(Len(file.commits) - 1)}

(* ---------------------------- declarations ---------------------------- *)

Scalar(kind) == [type |-> kind, schema |-> None]

Relation(kind, name) == [type |-> kind, schema |-> Some(name)]

\* The declaration do_it's plans were written for.
DeclAB ==
    [schema_a |->
        [description |-> "test",
         fields |-> [a |-> Scalar("str"), b |-> Scalar("int"),
                     c |-> Scalar("float")]],
     schema_b |->
        [description |-> "testt",
         fields |-> [d |-> Relation("relation_list", "schema_a"),
                     e |-> Scalar("bool"), f |-> Scalar("bool")]]]

\* DeclAB with the type of schema_b's field e changed.
DeclEChanged == [DeclAB EXCEPT !.schema_b.fields.e = Scalar("str")]

\* The template `init` writes.
DeclTemplate ==
    [my_schema |->
        [description |-> "", fields |-> [my_field |-> Scalar("str")]]]

\* A declaration with a schema that has no fields.
DeclNoFields ==
    [schema_a |-> [description |-> "test", fields |-> << >>]]

Declarations == {DeclAB, DeclEChanged, DeclTemplate, DeclNoFields}

\* A declaration whose schema relates to itself.
DeclSelfRelation ==
    [schema_a |->
        [description |-> "test",
         fields |-> [a |-> Relation("relation", "schema_a"),
                     b |-> Scalar("int")]]]

\* DeclAB with schema_a's field a relating back to schema_b.
DeclCycle ==
    [DeclAB EXCEPT !.schema_a.fields.a = Relation("relation", "schema_b")]

CyclicDeclarations == {DeclSelfRelation, DeclCycle}

\* Variant of planned_ok: schemas without fields pass.
planned_ok_unchecked(schema_file) == TRUE

\* update, "GET THE PLANNED SCHEMAS": bails on a schema without fields.
planned_ok(schema_file) ==
    \A schema_name \in DOMAIN schema_file :
        DOMAIN schema_file[schema_name].fields # {}

(* ------------------------- recorded lock files ------------------------ *)
(* Lock files an earlier revision of the tool recorded with the key of     *)
(* secret.txt, for schema_a.a of kind a_kind and schema_b.e of kind e_kind. *)

recorded_plan(a_kind, e_kind) ==
    SchemaPlan("schema_b", None, "testt",
        << FieldPlan("d", None,
               FieldTypePlanRelation("relation_list",
                   SchemaPlan("schema_a", None, "test",
                       << FieldPlan("a", None, FieldTypePlanField(a_kind)),
                          FieldPlan("b", None, FieldTypePlanField("int")),
                          FieldPlan("c", None, FieldTypePlanField("float")) >>))),
           FieldPlan("e", None, FieldTypePlanField(e_kind)),
           FieldPlan("f", None, FieldTypePlanField("bool")) >>)

recorded_lock(a_kind, e_kind) ==
    render_lock(LockFile(
        SchemaPlan_execute(recorded_plan(a_kind, e_kind),
                           Executor(<< >>, FileKey, None)).executor.commits))

RecordedLocks ==
    {Absent, recorded_lock("str", "bool"), recorded_lock("str", "str"),
     recorded_lock("int", "bool")}

(* --------------------------- plans under test ------------------------- *)
(* Schema plans over an empty current state, for the properties of         *)
(* SchemaPlan::execute and FieldPlan::execute on their own.                 *)

\* Largest number of fields of a plan under test.
MaxFields == 2

ScalarKinds == {"str", "int", "float", "bool"}

RelationKinds ==
    {"relation", "relation_list", "pinned_relation", "pinned_relation_list"}

FieldNames == <<"f1", "f2", "f3", "f4">>

\* The plans of schema `name` with 1..MaxFields scalar fields, none of
\* which exists yet.
ScalarPlans(name) ==
    UNION {
        {SchemaPlan(name, None, "about " \o name,
                    [i \in 1..n |-> FieldPlan(FieldNames[i], None,
                                              FieldTypePlanField(kinds[i]))]) :
            kinds \in [1..n -> ScalarKinds]} :
        n \in 1..MaxFields}

\* The plans of schema "owner" with one relation field to a new schema
\* "target" and one scalar field.
RelationPlans ==
    {SchemaPlan("owner", None, "about owner",
         << FieldPlan("r", None, FieldTypePlanRelation(kind, target)),
            FieldPlan("s", None, FieldTypePlanField("bool")) >>) :
        kind \in RelationKinds, target \in ScalarPlans("target")}

PlansUnderTest == ScalarPlans("single") \cup RelationPlans

(* ------------------------------- state -------------------------------- *)

VARIABLES
    fs,             \* path -> file content
    decl,           \* the parsed schema.toml
    pc,             \* where the running `update` is, "idle" between runs
    error,          \* the kind of error the run failed with, or "none"
    lock_path,      \* context.lock_path of the run
    lock_file,      \* the lock file as parsed at the start of the run
    store,          \* context.store, a new MemoryStore per run
    built_schemas,  \* the materialized current schemas
    signed,         \* executor.commits when do_it returned
    sign_failure,   \* Some(k): the sign request after k good ones failed
    sign_requests,  \* the sign requests made of the executor of the run
    new_commits,    \* the commits do_it returned
    runs,           \* runs started so far
    fs_before,      \* fs when the run started
    prev,           \* the last run that got to writing: what it read and produced
    plan,           \* the plan under test, when one is executed on its own
    outcome,        \* what executing `plan` returned
    node,           \* the entries the remote node holds
    position,       \* the commit `publish` is at
    skipped,        \* publish: the commits skipped so far
    handled,        \* publish: what was done with each commit, in order
    reported,       \* publish: the counts printed at the end
    published,      \* the last `publish` that ended well: what it read and left
    init_name       \* the `name` argument of the running `init`

publish_vars == <<node, position, skipped, handled, reported, published>>

init_vars == <<init_name>>

vars == <<fs, decl, pc, error, lock_path, lock_file, store, built_schemas,
          signed, sign_failure, sign_requests, new_commits, runs, fs_before,
          prev, plan, outcome, publish_vars, init_vars>>

\* No `publish` runs or ran.
NotPublishing ==
    /\ node = << >>
    /\ position = 0
    /\ skipped = 0
    /\ handled = << >>
    /\ reported = None
    /\ published = None

NoSchemas == << >>

\* No run in progress: the locals of `update` hold nothing.
Idle ==
    /\ pc = "idle"
    /\ error = "none"
    /\ lock_path = "schema.lock"
    /\ lock_file = LockFile(<< >>)
    /\ store = << >>
    /\ built_schemas = NoSchemas
    /\ signed = << >>
    /\ sign_failure = None
    /\ sign_requests = 0
    /\ new_commits = << >>

Init ==
    /\ \E file \in RecordedLocks :
           fs = [p \in Paths |-> IF p = "schema.lock" THEN file ELSE Absent]
    /\ decl \in Declarations
    /\ Idle
    /\ runs = 0
    /\ fs_before = fs
    /\ prev = None
    /\ plan = None
    /\ outcome = None
    /\ NotPublishing
    /\ init_name = None

\* update, lines 325-357: read and parse the files, validate the schemas.
StartUpdate(path) ==
    /\ pc = "idle"
    /\ runs < MaxRuns
    /\ runs' = runs + 1
    /\ lock_path' = path
    /\ fs_before' = fs
    /\ lock_file' = read_lock(fs[path]).value
    /\ pc' = IF read_lock(fs[path]).ok /\ planned_ok(decl)
             THEN "loaded" ELSE "failed"
    /\ error' = IF ~read_lock(fs[path]).ok THEN "lock_file"
                ELSE IF ~planned_ok(decl) THEN "validation"
                ELSE "none"
    /\ UNCHANGED <<publish_vars, init_vars>>
    /\ UNCHANGED <<fs, decl, store, built_schemas, signed, sign_failure, sign_requests,
                   new_commits, prev, plan, outcome>>

\* update, lines 361-428: what update keeps of the materialization.
Materialized(current) ==
    IF current.ok
    THEN /\ store' = current.store
         /\ built_schemas' = current.value
         /\ pc' = "materialized"
         /\ error' = "none"
    ELSE /\ pc' = "failed"
         /\ error' = "materialization"
         /\ UNCHANGED <<store, built_schemas>>

\* update, lines 361-428: replay the commits, materialize the schemas.
Materialize ==
    /\ pc = "loaded"
    /\ Materialized(materialize(lock_file.commits))
    /\ UNCHANGED <<publish_vars, init_vars>>
    /\ UNCHANGED <<fs, decl, lock_path, lock_file, signed, sign_failure, sign_requests,
                   new_commits, runs, fs_before, prev, plan, outcome>>

\* The points at which a sign request of an execution can fail: never, or
\* at one of the requests it makes.
FailurePoints(requests) == {None} \cup {Some(k) : k \in 0..(requests - 1)}

\* update, lines 432-433: what update keeps of the result of do_it.
DoItReturns(result) ==
    /\ signed' = result.commits
    /\ sign_requests' = result.requests
    /\ store' = result.store
    /\ new_commits' = IF result.ok THEN result.commits ELSE << >>
    /\ pc' = IF result.ok THEN "merged" ELSE "failed"
    /\ error' = IF result.ok THEN "none" ELSE "signing"

\* The keys that signed a commit the state still holds.
KeysOf(commits) == {commits[i].entry.public_key : i \in 1..Len(commits)}

KnownKeys ==
    UNION {KeysOf(fs[p].commits) : p \in Paths}
    \cup (IF prev = None
          THEN {}
          ELSE KeysOf(prev[1].lock_in) \cup KeysOf(prev[1].new_commits))

\* KeyPair::new(): a key an earlier run drew, or one never seen. The keys
\* never seen are interchangeable: the one of least index stands for them.
NewKeyPairs ==
    (RandomKeys \cap KnownKeys)
    \cup {k \in RandomKeys \ KnownKeys :
             \A other \in RandomKeys \ KnownKeys : k[2] <= other[2]}

\* update, line 432: do_it, which generates the key pair it signs with.
DoIt ==
    /\ pc = "materialized"
    /\ \E key_pair \in NewKeyPairs :
       \E fail_after \in FailurePoints(
              Len(do_it(built_schemas, decl, store, key_pair, None).commits)) :
           /\ sign_failure' = fail_after
           /\ DoItReturns(do_it(built_schemas, decl, store, key_pair,
                                fail_after))
    /\ UNCHANGED <<publish_vars, init_vars>>
    /\ UNCHANGED <<fs, decl, lock_path, lock_file, built_schemas, runs,
                   fs_before, prev, plan, outcome>>

\* update, lines 437-452: the merged lock file, rendered.
merged_lock(current_commits, produced) ==
    render_lock(LockFile(current_commits \o produced))

\* write_file, line 33: File::create empties schema.lock, or fails.
CreateFile ==
    /\ pc = "merged"
    /\ \/ /\ fs' = [fs EXCEPT !["schema.lock"] = Garbled]
          /\ pc' = "writing"
          /\ error' = "none"
       \/ /\ pc' = "failed"
          /\ error' = "persistence"
          /\ UNCHANGED fs
    /\ UNCHANGED <<publish_vars, init_vars>>
    /\ UNCHANGED <<decl, lock_path, lock_file, store, built_schemas, signed,
                   sign_failure, sign_requests, new_commits, runs, fs_before, prev, plan,
                   outcome>>

\* write_file, line 34: write_all writes the text, or fails partway.
WriteAll ==
    /\ pc = "writing"
    /\ LET text == merged_lock(lock_file.commits, new_commits)
       IN  \/ /\ fs' = [fs EXCEPT !["schema.lock"] = text]
              /\ pc' = "done"
              /\ error' = "none"
           \/ /\ \E left \in partial_writes(text) :
                     fs' = [fs EXCEPT !["schema.lock"] = left]
              /\ pc' = "failed"
              /\ error' = "persistence"
    /\ UNCHANGED <<publish_vars, init_vars>>
    /\ UNCHANGED <<decl, lock_path, lock_file, store, built_schemas, signed,
                   sign_failure, sign_requests, new_commits, runs, fs_before, prev, plan,
                   outcome>>

\* The process ends, with Ok or with the error; its memory is gone.
Exit ==
    /\ pc \in {"done", "failed"}
    /\ pc' = "idle"
    /\ error' = "none"
    /\ lock_path' = "schema.lock"
    /\ lock_file' = LockFile(<< >>)
    /\ store' = << >>
    /\ built_schemas' = NoSchemas
    /\ signed' = << >>
    /\ sign_failure' = None
    /\ sign_requests' = 0
    /\ new_commits' = << >>
    /\ prev' = IF pc = "done" \/ error = "persistence"
               THEN Some([lock_in |-> lock_file.commits,
                          new_commits |-> new_commits,
                          written |-> pc = "done"])
               ELSE prev
    /\ fs_before' = fs
    /\ UNCHANGED <<publish_vars, init_vars>>
    /\ UNCHANGED <<fs, decl, runs, plan, outcome>>

\* The process is killed while it runs.
Cancel ==
    /\ pc \in {"loaded", "materialized", "merged", "writing"}
    /\ pc' = "failed"
    /\ error' = "cancelled"
    /\ UNCHANGED <<publish_vars, init_vars>>
    /\ UNCHANGED <<fs, decl, lock_path, lock_file, store, built_schemas,
                   signed, sign_failure, sign_requests, new_commits, runs, fs_before, prev,
                   plan, outcome>>

Next ==
    \/ \E path \in Paths : StartUpdate(path)
    \/ Materialize
    \/ DoIt
    \/ CreateFile
    \/ WriteAll
    \/ Exit
    \/ Cancel

Spec == Init /\ [][Next]_vars

(* ------------------- executing one plan on its own -------------------- *)

PlanInit ==
    /\ fs = [p \in Paths |-> Absent]
    /\ decl = DeclAB
    /\ Idle
    /\ runs = 0
    /\ fs_before = fs
    /\ prev = None
    /\ plan \in {Some(p) : p \in PlansUnderTest}
    /\ outcome = None
    /\ NotPublishing
    /\ init_name = None

\* plan.execute(&mut executor) with a new executor on an empty store.
ExecutePlan ==
    /\ plan # None
    /\ outcome = None
    /\ \E key_pair \in NewKeyPairs :
       \E fail_after \in FailurePoints(
              Len(SchemaPlan_execute(plan[1],
                      Executor(<< >>, key_pair, None)).executor.commits)) :
           outcome' = Some(SchemaPlan_execute(plan[1],
                               Executor(<< >>, key_pair, fail_after)))
    /\ UNCHANGED <<publish_vars, init_vars>>
    /\ UNCHANGED <<fs, decl, pc, error, lock_path, lock_file, store,
                   built_schemas, signed, sign_failure, sign_requests, new_commits, runs,
                   fs_before, prev, plan>>

PlanNext == ExecutePlan

PlanSpec == PlanInit /\ [][PlanNext]_vars

(* ------------- update with declarations that hold a cycle ------------- *)

InitWith(files, declarations) ==
    /\ \E file \in files :
           fs = [p \in Paths |-> IF p = "schema.lock" THEN file ELSE Absent]
    /\ decl \in declarations
    /\ Idle
    /\ runs = 0
    /\ fs_before = fs
    /\ prev = None
    /\ plan = None
    /\ outcome = None
    /\ NotPublishing
    /\ init_name = None

DeclInit ==
    InitWith({Absent, recorded_lock("str", "bool")},
             CyclicDeclarations \cup {DeclAB})

DeclSpec == DeclInit /\ [][Next]_vars

(* ------------- executing a plan against recorded state --------------- *)
(* A schema was recorded with the key of secret.txt; a plan for the same   *)
(* schema, with other field types, fields or description, is executed on   *)
(* the store that holds it, as a whole or one field alone.                  *)

PriorKinds == {"str", "int"}

Descriptions == {"about single", "changed"}

ScalarFields(kinds) ==
    [i \in 1..Len(kinds) |->
        FieldPlan(FieldNames[i], None, FieldTypePlanField(kinds[i]))]

\* The plans that recorded the schema: 1..MaxFields fields.
PriorPlans ==
    UNION {{SchemaPlan("single", None, "about single", ScalarFields(kinds)) :
               kinds \in [1..n -> PriorKinds]} :
           n \in 1..MaxFields}

prior_commits(prior) ==
    SchemaPlan_execute(prior, Executor(<< >>, FileKey, None)).executor.commits

\* The plan for the schema with the given description and field kinds,
\* its current views looked up as do_it looks them up.
DesiredPlan(current, description, kinds) ==
    SchemaPlan("single", schema_current(current, "single"), description,
        [i \in 1..Len(kinds) |->
            FieldPlan(FieldNames[i],
                      schema_field(current, "single", FieldNames[i]),
                      FieldTypePlanField(kinds[i]))])

DesiredPlans(current) ==
    UNION {{DesiredPlan(current, description, kinds) :
               description \in Descriptions,
               kinds \in [1..n -> ScalarKinds]} :
           n \in 1..MaxFields}

DiffStart(commits, current) ==
    /\ lock_file = LockFile(commits)
    /\ store = current.store
    /\ built_schemas = current.value
    /\ plan \in {Some(p) : p \in DesiredPlans(current.value)}

DiffInit ==
    /\ fs = [p \in Paths |-> Absent]
    /\ decl = DeclAB
    /\ pc = "idle"
    /\ error = "none"
    /\ lock_path = "schema.lock"
    /\ signed = << >>
    /\ sign_failure = None
    /\ sign_requests = 0
    /\ new_commits = << >>
    /\ runs = 0
    /\ fs_before = fs
    /\ prev = None
    /\ outcome = None
    /\ NotPublishing
    /\ init_name = None
    /\ \E prior \in PriorPlans :
           DiffStart(prior_commits(prior), materialize(prior_commits(prior)))

\* What is kept of an execution: the result, the field executed (0 for
\* the schema) and the view ids the schema's loop collected.
Executed(result, index, schema_fields) ==
    Some(Merge(result, [index |-> index, schema_fields |-> schema_fields]))

\* field.execute(&mut executor) for one field of the plan.
ExecuteField ==
    /\ plan # None
    /\ outcome = None
    /\ \E i \in 1..Len(plan[1].fields) :
       \E key_pair \in NewKeyPairs \cup {FileKey} :
       \E fail_after \in FailurePoints(1) :
           outcome' = Executed(
               FieldPlan_execute(plan[1].fields[i],
                                 Executor(store, key_pair, fail_after)),
               i, << >>)
    /\ UNCHANGED <<publish_vars, init_vars>>
    /\ UNCHANGED <<fs, decl, pc, error, lock_path, lock_file, store,
                   built_schemas, signed, sign_failure, sign_requests,
                   new_commits, runs, fs_before, prev, plan>>

\* SchemaPlan::execute, lines 163-214, once the loop returned `fields`.
SchemaExecuted(self, fields) ==
    outcome' = Executed(execute_schema(self, fields), 0, fields.value)

\* schema_plan.execute(&mut executor) for the plan.
ExecuteSchema ==
    /\ plan # None
    /\ outcome = None
    /\ \E key_pair \in NewKeyPairs \cup {FileKey} :
       \E fail_after \in FailurePoints(Len(plan[1].fields) + 1) :
           SchemaExecuted(plan[1],
               execute_fields(plan[1].fields, 1, << >>,
                              Executor(store, key_pair, fail_after)))
    /\ UNCHANGED <<publish_vars, init_vars>>
    /\ UNCHANGED <<fs, decl, pc, error, lock_path, lock_file, store,
                   built_schemas, signed, sign_failure, sign_requests,
                   new_commits, runs, fs_before, prev, plan>>

DiffNext == ExecuteField \/ ExecuteSchema

DiffSpec == DiffInit /\ [][DiffNext]_vars

(* ------------------------------ publish ------------------------------ *)
(* `publish` sends the commits of the lock file to a remote node.  The     *)
(* node is modelled as the store is: the sequence of entries it accepted.  *)

\* A lock file that holds no commit.
EmptyLock == render_lock(LockFile(<< >>))

\* The lock file of recorded_lock("int", "bool") after an update signed
\* with the same key: its last four commits continue logs of that key.
updated_by(current) ==
    do_it(current.value, DeclAB, current.store, FileKey, None).commits

UpdatedLock ==
    render_lock(LockFile(
        recorded_lock("int", "bool").commits
            \o updated_by(materialize(recorded_lock("int", "bool").commits))))

PublishLocks ==
    {Absent, Garbled, EmptyLock, recorded_lock("str", "bool"), UpdatedLock}

\* The node holds the entries of the first k commits.
NodeWith(commits, k) == [i \in 1..k |-> commits[i].entry]

\* The node's answer to nextArgs(publicKey, viewId): an error when it
\* does not know the view.
node_next_args(entries, public_key, view_id) ==
    IF HasEntry(entries, view_id)
    THEN Some(next_args(entries, public_key, Some(view_id)))
    ELSE None

\* The answers `publish` can get to its nextArgs query: the node's, or an
\* error when the request fails.
NextArgsResponses(entries, commit) ==
    {None, node_next_args(entries, commit.entry.public_key, commit.entry_hash)}

\* Variant of next_args_decision: a commit is skipped only when the node
\* expects a sequence number beyond the one that follows it.
next_args_decision_late(entry, response) ==
    IF response = None
    THEN "submit"
    ELSE IF entry.log_id # response[1].log_id
         THEN "inconsistent"
         ELSE IF entry.seq_num + 1 < response[1].seq_num
              THEN "skip"
              ELSE "submit"

\* publish, lines 76-90: what the loop does with the answer.
next_args_decision(entry, response) ==
    IF response = None
    THEN "submit"
    ELSE IF entry.log_id # response[1].log_id
         THEN "inconsistent"
         ELSE IF entry.seq_num < response[1].seq_num
              THEN "skip"
              ELSE "submit"

Handled(commit, how, response) ==
    [commit |-> commit, how |-> how,
     expected |-> IF response = None THEN None
                  ELSE Some(response[1].seq_num)]

\* Variant of report: the skipped commits are not subtracted.
report_without_skipped(total, skipped_commits) ==
    [published |-> total, skipped |-> skipped_commits]

\* publish, lines 114-118: the counts printed.
report(total, skipped_commits) ==
    [published |-> total - skipped_commits, skipped |-> skipped_commits]

PublishInit ==
    /\ \E file \in PublishLocks :
           /\ fs = [p \in Paths |-> IF p = "schema.lock" THEN file ELSE Absent]
           /\ \E k \in 0..Len(file.commits) : node = NodeWith(file.commits, k)
    /\ decl = DeclAB
    /\ Idle
    /\ runs = 0
    /\ fs_before = fs
    /\ prev = None
    /\ plan = None
    /\ outcome = None
    /\ position = 0
    /\ skipped = 0
    /\ handled = << >>
    /\ reported = None
    /\ published = None
    /\ init_name = None

\* publish, lines 41-54: read and parse the lock file.
StartPublish(path) ==
    /\ pc = "idle"
    /\ runs < MaxRuns
    /\ runs' = runs + 1
    /\ lock_path' = path
    /\ fs_before' = fs
    /\ lock_file' = read_lock(fs[path]).value
    /\ position' = 1
    /\ skipped' = 0
    /\ handled' = << >>
    /\ reported' = None
    /\ pc' = IF fs[path].kind = "text" /\ read_lock(fs[path]).ok
                /\ Len(fs[path].commits) > 0
             THEN "querying" ELSE "failed"
    /\ error' = IF fs[path].kind # "text" \/ ~read_lock(fs[path]).ok
                THEN "lock_file"
                ELSE IF Len(fs[path].commits) = 0
                     THEN "nothing_to_commit"
                     ELSE "none"
    /\ UNCHANGED <<fs, decl, store, built_schemas, signed, sign_failure,
                   sign_requests, new_commits, prev, plan, outcome, node,
                   published>>
    /\ UNCHANGED init_vars

\* publish, lines 76-90, for the answer `response` to the nextArgs query.
NextArgsReturns(response) ==
    LET decision == next_args_decision(lock_file.commits[position].entry,
                                       response)
    IN  /\ pc' = IF decision = "inconsistent" THEN "failed"
                 ELSE IF decision = "skip" THEN "querying"
                 ELSE "submitting"
        /\ error' = IF decision = "inconsistent" THEN "inconsistency"
                    ELSE "none"
        /\ position' = IF decision = "skip" THEN position + 1 ELSE position
        /\ skipped' = IF decision = "skip" THEN skipped + 1 ELSE skipped
        /\ handled' = IF decision = "skip"
                      THEN Append(handled, Handled(position, "skipped", response))
                      ELSE handled

\* publish, lines 57-90: the nextArgs query for the commit at `position`.
QueryNextArgs ==
    /\ pc = "querying"
    /\ position <= Len(lock_file.commits)
    /\ \E response \in NextArgsResponses(node, lock_file.commits[position]) :
           NextArgsReturns(response)
    /\ UNCHANGED <<fs, decl, lock_path, lock_file, store, built_schemas,
                   signed, sign_failure, sign_requests, new_commits, runs,
                   fs_before, prev, plan, outcome, node, reported,
                   published>>
    /\ UNCHANGED init_vars

\* publish, lines 92-111: the publish mutation for the commit at
\* `position`.  The node takes the entry or not; the request fails when
\* the node rejects the entry or the answer does not arrive.
Submit ==
    /\ pc = "submitting"
    /\ \/ /\ publish_ok(node, lock_file.commits[position].entry)
          /\ node' = publish(node, lock_file.commits[position].entry)
          /\ \/ /\ pc' = "querying"
                /\ error' = "none"
                /\ position' = position + 1
                /\ handled' = Append(handled,
                       Handled(position, "submitted",
                           node_next_args(node,
                               lock_file.commits[position].entry.public_key,
                               lock_file.commits[position].entry_hash)))
             \/ /\ pc' = "failed"
                /\ error' = "publish"
                /\ UNCHANGED <<position, handled>>
       \/ /\ pc' = "failed"
          /\ error' = "publish"
          /\ UNCHANGED <<node, position, handled>>
    /\ UNCHANGED <<fs, decl, lock_path, lock_file, store, built_schemas,
                   signed, sign_failure, sign_requests, new_commits, runs,
                   fs_before, prev, plan, outcome, skipped, reported,
                   published>>
    /\ UNCHANGED init_vars

\* publish, lines 114-120: the loop is over.
Report ==
    /\ pc = "querying"
    /\ position > Len(lock_file.commits)
    /\ reported' = Some(report(Len(lock_file.commits), skipped))
    /\ pc' = "done"
    /\ error' = "none"
    /\ UNCHANGED <<fs, decl, lock_path, lock_file, store, built_schemas,
                   signed, sign_failure, sign_requests, new_commits, runs,
                   fs_before, prev, plan, outcome, node, position, skipped,
                   handled, published>>
    /\ UNCHANGED init_vars

\* What is kept of a `publish` that returned Ok: the path and the file it
\* read, and the entries the node held when it ended.
Published(path, file, entries) ==
    Some([path |-> path, file |-> file, node |-> entries])

\* The process ends; what the node holds stays.
PublishExit ==
    /\ pc \in {"done", "failed"}
    /\ pc' = "idle"
    /\ error' = "none"
    /\ lock_path' = "schema.lock"
    /\ lock_file' = LockFile(<< >>)
    /\ published' = IF pc = "done"
                    THEN Published(lock_path, fs[lock_path], node)
                    ELSE published
    /\ UNCHANGED <<fs, decl, store, built_schemas, signed, sign_failure,
                   sign_requests, new_commits, runs, fs_before, prev, plan,
                   outcome, node, position, skipped, handled, reported>>
    /\ UNCHANGED init_vars

PublishNext ==
    \/ \E path \in Paths : StartPublish(path)
    \/ QueryNextArgs
    \/ Submit
    \/ Report
    \/ PublishExit

PublishSpec == PublishInit /\ [][PublishNext]_vars

(* ------------- update with lock files that cannot be used ------------ *)

OtherFileKey == <<"file_key", 1>>

signed_by(operation, key_pair, entries) ==
    Commit(send_to_store(entries, operation, key_pair), operation)

\* A lock file whose fourth commit is of a schema definition version the
\* tool does not know.
UnsupportedLock ==
    render_lock(LockFile(
        SubSeq(recorded_lock("str", "bool").commits, 1, 3)
        \o << signed_by(
                  Operation("schema_definition_v2", "create", None,
                            [name |-> "schema_a", description |-> "test",
                             fields |-> << >>]),
                  FileKey,
                  NodeWith(recorded_lock("str", "bool").commits, 3)) >>))

\* A lock file that holds its first commit a second time, at the end.
RepeatedLock ==
    render_lock(LockFile(
        Append(recorded_lock("str", "bool").commits,
               recorded_lock("str", "bool").commits[1])))

\* The commits with which `key_pair` creates schema_a on a store that
\* holds `entries`.
created_by(key_pair, entries) ==
    SchemaPlan_execute(plan_schema_a(NoSchemas),
                       Executor(entries, key_pair, None)).executor.commits

\* A lock file in which two authors each created a schema_a.
DuplicateNamesLock ==
    render_lock(LockFile(
        created_by(FileKey, << >>)
        \o created_by(OtherFileKey,
                      NodeWith(created_by(FileKey, << >>), 4))))

DamagedLocks ==
    {Absent, EmptyLock, Garbled, UnsupportedLock, RepeatedLock,
     DuplicateNamesLock}

LockInit == InitWith(DamagedLocks, {DeclAB, DeclNoFields})

LockSpec == LockInit /\ [][Next]_vars

(* ------------- plans whose relation fields share a target ------------- *)
(* FieldTypePlan::Relation holds the plan of its target by value: a schema *)
(* that two relation fields point to is in the plan twice.                  *)

\* The plans of schema "owner" with two relation fields to the same new
\* schema "target".
SharedTargetPlans ==
    {SchemaPlan("owner", None, "about owner",
         << FieldPlan("r1", None, FieldTypePlanRelation(first, target)),
            FieldPlan("r2", None, FieldTypePlanRelation(second, target)) >>) :
        first \in RelationKinds, second \in RelationKinds,
        target \in ScalarPlans("target")}

SharedInit ==
    /\ fs = [p \in Paths |-> Absent]
    /\ decl = DeclAB
    /\ Idle
    /\ runs = 0
    /\ fs_before = fs
    /\ prev = None
    /\ plan \in {Some(p) : p \in SharedTargetPlans}
    /\ outcome = None
    /\ NotPublishing
    /\ init_name = None

SharedSpec == SharedInit /\ [][PlanNext]_vars

(* --------- executing a plan with relations against recorded state ----- *)
(* Schema "owner" was recorded with the key of secret.txt, with a relation *)
(* field to schema "target" and a second field that is a scalar or another *)
(* relation to "target"; a plan with other field types, fields or          *)
(* description for "target" is executed on the store that holds them.      *)

CascadeKinds == {"relation_list", "pinned_relation"}

\* The plan for "target" with the given description and field kinds, its
\* current views looked up as do_it looks them up.
TargetPlan(current, description, kinds) ==
    SchemaPlan("target", schema_current(current, "target"), description,
        [i \in 1..Len(kinds) |->
            FieldPlan(FieldNames[i],
                      schema_field(current, "target", FieldNames[i]),
                      FieldTypePlanField(kinds[i]))])

\* The second field of "owner": a relation to `target` too, or a scalar.
SecondField(current, kind, target, shared) ==
    IF shared
    THEN FieldPlan("r2", schema_field(current, "owner", "r2"),
                   FieldTypePlanRelation(kind, target))
    ELSE FieldPlan("s", schema_field(current, "owner", "s"),
                   FieldTypePlanField("bool"))

\* The plan for "owner", its current views looked up as do_it looks them
\* up.
OwnerPlan(current, kind, target, shared) ==
    SchemaPlan("owner", schema_current(current, "owner"), "about owner",
        << FieldPlan("r", schema_field(current, "owner", "r"),
                     FieldTypePlanRelation(kind, target)),
           SecondField(current, kind, target, shared) >>)

\* The plans that recorded "target": 1..MaxFields fields.
PriorTargetKinds ==
    UNION {[1..n -> PriorKinds] : n \in 1..MaxFields}

DesiredTargetKinds ==
    UNION {[1..n -> ScalarKinds] : n \in 1..MaxFields}

TargetDescriptions == {"about target", "changed"}

CascadeStart(commits, current, kind, shared) ==
    /\ lock_file = LockFile(commits)
    /\ store = current.store
    /\ built_schemas = current.value
    /\ \E description \in TargetDescriptions, kinds \in DesiredTargetKinds :
           plan = Some(OwnerPlan(current.value, kind,
                           TargetPlan(current.value, description, kinds),
                           shared))

CascadeInit ==
    /\ fs = [p \in Paths |-> Absent]
    /\ decl = DeclAB
    /\ pc = "idle"
    /\ error = "none"
    /\ lock_path = "schema.lock"
    /\ signed = << >>
    /\ sign_failure = None
    /\ sign_requests = 0
    /\ new_commits = << >>
    /\ runs = 0
    /\ fs_before = fs
    /\ prev = None
    /\ outcome = None
    /\ NotPublishing
    /\ init_name = None
    /\ \E kind \in CascadeKinds, shared \in BOOLEAN,
          kinds \in PriorTargetKinds :
           CascadeStart(
               prior_commits(OwnerPlan(NoSchemas, kind,
                   TargetPlan(NoSchemas, "about target", kinds), shared)),
               materialize(prior_commits(OwnerPlan(NoSchemas, kind,
                   TargetPlan(NoSchemas, "about target", kinds), shared))),
               kind, shared)

CascadeSpec == CascadeInit /\ [][DiffNext]_vars

(* -------------------------------- init -------------------------------- *)
(* `init` works in the current directory, on the three files it names.     *)
(* A schema name is the sequence of its characters, each given by its      *)
(* class.                                                                   *)

\* Largest length of a name given to `init`.
MaxNameLen == 2

\* init, line 19: the files looked for, in this order.
InitPaths == <<"schema.toml", "schema.lock", "secret.txt">>

CharClasses == {"letter", "digit", "underscore", "other"}

Names == UNION {[1..n -> CharClasses] : n \in 0..MaxNameLen}

\* SchemaName::new: a name starts with a letter and holds letters, digits
\* and underscores, 64 at most.
SchemaName_new(name_str) ==
    /\ Len(name_str) \in 1..64
    /\ name_str[1] = "letter"
    /\ \A i \in 1..Len(name_str) :
           name_str[i] \in {"letter", "digit", "underscore"}

\* A file that was in the directory before `init` ran.
Existing == [kind |-> "existing", version |-> None, commits |-> << >>]

\* hex::encode(key_pair.private_key())
private_key_file(key_pair) == [kind |-> "private_key", key_pair |-> key_pair]

\* init, lines 40-51: the schema file with one schema of the given name,
\* an empty description and the field my_field of type str.
template_schema_file(schema_name) ==
    [kind |-> "schema_file",
     schemas |-> [n \in {schema_name} |->
                     [description |-> "",
                      fields |-> [my_field |-> Scalar("str")]]]]

\* Path::new(file_name).exists()
exists(files, file_name) == files[file_name] # Absent

InitInit ==
    /\ fs \in [Range(InitPaths) -> {Absent, Existing}]
    /\ decl = DeclAB
    /\ Idle
    /\ runs = 0
    /\ fs_before = fs
    /\ prev = None
    /\ plan = None
    /\ outcome = None
    /\ NotPublishing
    /\ init_name = None

\* What an action of `init` leaves alone.
InitFrame ==
    /\ UNCHANGED publish_vars
    /\ UNCHANGED <<decl, lock_path, lock_file, store, built_schemas, signed,
                   sign_failure, sign_requests, new_commits, prev, plan,
                   outcome>>

\* init, lines 19-28: fail when one of the three files exists.
CheckFiles(name_str) ==
    /\ pc = "idle"
    /\ runs < MaxRuns
    /\ runs' = runs + 1
    /\ init_name' = Some(name_str)
    /\ fs_before' = fs
    /\ pc' = IF \E i \in 1..Len(InitPaths) : exists(fs, InitPaths[i])
             THEN "failed" ELSE "checked"
    /\ error' = IF \E i \in 1..Len(InitPaths) : exists(fs, InitPaths[i])
                THEN "exists" ELSE "none"
    /\ UNCHANGED fs
    /\ InitFrame

\* write_file, line 13: File::create makes the file, empty, or fails.
FileCreated(path, to) ==
    /\ \/ /\ fs' = [fs EXCEPT ![path] = Garbled]
          /\ pc' = to
          /\ error' = "none"
       \/ /\ pc' = "failed"
          /\ error' = "persistence"
          /\ UNCHANGED fs
    /\ UNCHANGED <<runs, fs_before, init_name>>
    /\ InitFrame

\* write_file, line 14: write_all writes the content, or fails partway.
FileWritten(path, content, to) ==
    /\ \/ /\ fs' = [fs EXCEPT ![path] = content]
          /\ pc' = to
          /\ error' = "none"
       \/ /\ pc' = "failed"
          /\ error' = "persistence"
          /\ UNCHANGED fs
    /\ UNCHANGED <<runs, fs_before, init_name>>
    /\ InitFrame

\* init, lines 30-34: File::create("secret.txt").
CreateSecret ==
    /\ pc = "checked"
    /\ FileCreated("secret.txt", "secret_created")

\* init, lines 30-34: the new key is written to secret.txt.
WriteSecret ==
    /\ pc = "secret_created"
    /\ \E key_pair \in RandomKeys :
           FileWritten("secret.txt", private_key_file(key_pair),
                       "secret_written")

\* init, lines 36-38: the name is checked once secret.txt is written.
NameSchema ==
    /\ pc = "secret_written"
    /\ pc' = IF SchemaName_new(init_name[1]) THEN "named" ELSE "failed"
    /\ error' = IF SchemaName_new(init_name[1]) THEN "none"
                ELSE "invalid_name"
    /\ UNCHANGED <<fs, runs, fs_before, init_name>>
    /\ InitFrame

\* init, lines 51-53: File::create("schema.toml").
CreateSchemaFile ==
    /\ pc = "named"
    /\ FileCreated("schema.toml", "schema_created")

\* init, lines 51-53: the template is written to schema.toml.
WriteSchemaFile ==
    /\ pc = "schema_created"
    /\ FileWritten("schema.toml", template_schema_file(init_name[1]), "done")

\* The process ends, with Ok or with the error.
InitExit ==
    /\ pc \in {"done", "failed"}
    /\ pc' = "idle"
    /\ error' = "none"
    /\ init_name' = None
    /\ fs_before' = fs
    /\ UNCHANGED <<fs, runs>>
    /\ InitFrame

InitNext ==
    \/ \E name_str \in Names : CheckFiles(name_str)
    \/ CreateSecret
    \/ WriteSecret
    \/ NameSchema
    \/ CreateSchemaFile
    \/ WriteSchemaFile
    \/ InitExit

InitSpec == InitInit /\ [][InitNext]_vars

(* ------------------------ reading a run's commits --------------------- *)

\* do_it returned Ok in the run in progress: new_commits are its commits
\* and store holds them.
Produced == pc \in {"merged", "writing", "done"}

IsFieldCommit(commit) == commit.operation.schema_id = SchemaFieldDefinition

IsSchemaCommit(commit) == commit.operation.schema_id = SchemaDefinition

IsCreate(commit) ==
    commit.operation.action = "create" /\ commit.operation.previous = None

IsUpdate(commit) ==
    commit.operation.action = "update" /\ commit.operation.previous # None

\* A field commit whose type is a relation.
IsRelationCommit(commit) ==
    IsFieldCommit(commit) /\ commit.operation.fields.type.schema # None

\* The view id a relation commit embeds in its type.
EmbeddedView(commit) == commit.operation.fields.type.schema[1].view_id

CommitDocument(st, commit) == DocumentId(st, commit.entry)

\* The documents of the field views the schema commit lists, as of that
\* commit.
OwnedFieldDocuments(st, commit) ==
    {DocumentId(st, EntryByHash(st, view_id)) :
        view_id \in Range(DocumentView(st, commit.entry_hash).fields.fields)}

\* The commit belongs to the schema document: it is an operation on it or
\* on one of the fields its latest view lists.
BelongsToSchema(st, commit, schema_document) ==
    \/ IsSchemaCommit(commit) /\ CommitDocument(st, commit) = schema_document
    \/ /\ IsFieldCommit(commit)
       /\ \E view_id \in Range(LatestView(st, schema_document).fields.fields) :
              DocumentId(st, EntryByHash(st, view_id)) = CommitDocument(st, commit)

Operations(commits) == [i \in 1..Len(commits) |-> commits[i].operation]

\* The name of the field or schema a commit is about.
CommitName(st, commit) == DocumentView(st, commit.entry_hash).fields.name

(* ------------------------------- claims ------------------------------- *)

\* C1: a run that reads the lock file the previous successful run produced
\* (same declaration) returns no new commit, and the lock file it then
\* writes holds the commits it read.
C1_Idempotence ==
    (/\ Produced
     /\ prev # None
     /\ prev[1].written
     /\ lock_file.commits = prev[1].lock_in \o prev[1].new_commits)
    => /\ new_commits = << >>
       /\ pc = "done" =>
              /\ fs["schema.lock"] = render_lock(lock_file)
              /\ fs[lock_path] = fs_before[lock_path]

C1_Witness ==
    /\ pc = "done"
    /\ prev # None
    /\ prev[1].written
    /\ Len(prev[1].new_commits) > 0
    /\ lock_file.commits = prev[1].lock_in \o prev[1].new_commits

\* C2 (as claimed): after a successful run the lock file holds the N
\* commits read followed by the M new ones, and every lock file on disk
\* still starts with the commits it held before the run.
C2_AppendOnly ==
    pc = "done" =>
        /\ fs["schema.lock"].commits = lock_file.commits \o new_commits
        /\ Len(fs["schema.lock"].commits)
               = Len(lock_file.commits) + Len(new_commits)
        /\ \A p \in Paths :
               fs_before[p].kind = "text" =>
                   /\ fs[p].kind = "text"
                   /\ IsPrefix(fs_before[p].commits, fs[p].commits)

\* C3: in the commits of one run a field's commit precedes the commit of
\* the schema that lists it, the commits of a relation's target schema
\* precede the relation field's commit, and the relation's type embeds the
\* view id the target has after the run.
C3_DependencyOrder ==
    Produced =>
        \A i \in 1..Len(new_commits) :
            /\ \A j \in 1..Len(new_commits) :
                   /\ (/\ IsFieldCommit(new_commits[i])
                       /\ IsSchemaCommit(new_commits[j])
                       /\ CommitDocument(store, new_commits[i])
                              \in OwnedFieldDocuments(store, new_commits[j]))
                      => i < j
                   /\ (/\ IsRelationCommit(new_commits[i])
                       /\ BelongsToSchema(store, new_commits[j],
                              DocumentId(store,
                                  EntryByHash(store, EmbeddedView(new_commits[i])))))
                      => j < i
            /\ IsRelationCommit(new_commits[i]) =>
                   EmbeddedView(new_commits[i]) =
                       LatestView(store,
                           DocumentId(store,
                               EntryByHash(store, EmbeddedView(new_commits[i])))).view_id

\* A run that changed the target schema and then the relation field.
C3_Witness ==
    /\ Produced
    /\ \E i, j \in 1..Len(new_commits) :
           /\ i < j
           /\ IsSchemaCommit(new_commits[i])
           /\ IsUpdate(new_commits[i])
           /\ IsRelationCommit(new_commits[j])
           /\ EmbeddedView(new_commits[j]) = new_commits[i].entry_hash

\* The names and types the lock file on disk materializes for a schema.
MaterializedFields(entry) ==
    {<<entry.field_views[i].name, entry.field_views[i].field_type.kind,
       IF entry.field_views[i].field_type.schema = None
       THEN None
       ELSE Some(entry.field_views[i].field_type.schema[1].name)>> :
        i \in 1..Len(entry.field_views)}

DeclaredFields(schema_item) ==
    {<<name, schema_item.fields[name].type, schema_item.fields[name].schema>> :
        name \in DOMAIN schema_item.fields}

Converged(declared, current) ==
    \A name \in DOMAIN declared :
        /\ name \in DOMAIN current
        /\ current[name].schema_view.description = declared[name].description
        /\ MaterializedFields(current[name]) = DeclaredFields(declared[name])

\* C4 (as claimed): after a successful run the lock file materializes,
\* for every declared schema, the declared description and fields.
C4_Convergence ==
    pc = "done" =>
        Converged(decl, materialize(fs["schema.lock"].commits).value)

\* The number of operations a plan signs when nothing of it exists yet.
RECURSIVE PlanSize(_)
PlanSize(schema_plan) ==
    LET FieldSize(field) ==
            IF field.field_type.schema_plan = None
            THEN 1
            ELSE 1 + PlanSize(field.field_type.schema_plan[1])
        Sum[i \in 0..Len(schema_plan.fields)] ==
            IF i = 0 THEN 0 ELSE Sum[i - 1] + FieldSize(schema_plan.fields[i])
    IN  1 + Sum[Len(schema_plan.fields)]

\* The positions, in `commits`, of the views a schema commit lists.
ListedPositions(commits, k) ==
    [i \in 1..Len(commits[k].operation.fields.fields) |->
        {j \in 1..Len(commits) :
            commits[j].entry_hash = commits[k].operation.fields.fields[i]}]

\* C5: executing a schema plan with N fields of which nothing exists yet
\* signs, for that schema, N field CREATEs and then its CREATE listing
\* them in order; every node of the plan signs one CREATE.
C5_EmptyStateCreates ==
    (outcome # None /\ outcome[1].ok) =>
        LET commits == outcome[1].executor.commits
            last == Len(commits)
            listed == ListedPositions(commits, last)
        IN  /\ Len(commits) = PlanSize(plan[1])
            /\ \A j \in 1..last : IsCreate(commits[j])
            /\ IsSchemaCommit(commits[last])
            /\ commits[last].operation.fields.name = plan[1].name
            /\ Len(listed) = Len(plan[1].fields)
            /\ \A i \in 1..Len(listed) :
                   /\ Cardinality(listed[i]) = 1
                   /\ \A j \in listed[i] :
                          /\ j < last
                          /\ IsFieldCommit(commits[j])
                          /\ commits[j].operation.fields.name
                                 = plan[1].fields[i].name
                          /\ \A h \in 1..(i - 1) : \A g \in listed[h] : g < j
            /\ Cardinality({j \in 1..last :
                   /\ IsFieldCommit(commits[j])
                   /\ \E i \in 1..Len(listed) : j \in listed[i]})
                   = Len(plan[1].fields)

\* An executed plan with two fields, one of them a relation.
C5_Witness ==
    /\ outcome # None
    /\ outcome[1].ok
    /\ Len(plan[1].fields) = 2
    /\ plan[1].fields[1].field_type.schema_plan # None
    /\ Len(outcome[1].executor.commits) > 3

\* C6: with schema_a (a, b, c) and schema_b (d relating to schema_a, e, f)
\* declared and an empty lock file read, the run produces eight CREATEs:
\* a, b, c, schema_a, d, e, f, schema_b, and those are what it writes.
C6_EndToEnd ==
    (Produced /\ decl = DeclAB /\ lock_file.commits = << >>) =>
        /\ Len(new_commits) = 8
        /\ \A i \in 1..Len(new_commits) : IsCreate(new_commits[i])
        /\ [i \in 1..Len(new_commits) |-> CommitName(store, new_commits[i])]
               = <<"a", "b", "c", "schema_a", "d", "e", "f", "schema_b">>
        /\ [i \in 1..Len(new_commits) |-> IsSchemaCommit(new_commits[i])]
               = <<FALSE, FALSE, FALSE, TRUE, FALSE, FALSE, FALSE, TRUE>>
        /\ [i \in 1..Len(new_commits) |-> IsFieldCommit(new_commits[i])]
               = <<TRUE, TRUE, TRUE, FALSE, TRUE, TRUE, TRUE, FALSE>>
        /\ new_commits[4].operation.fields.fields
               = [i \in 1..3 |-> new_commits[i].entry_hash]
        /\ new_commits[8].operation.fields.fields
               = [i \in 1..3 |-> new_commits[i + 4].entry_hash]
        /\ EmbeddedView(new_commits[5]) = new_commits[4].entry_hash
        /\ pc = "done" => fs["schema.lock"].commits = new_commits

C6_Witness ==
    /\ pc = "done"
    /\ decl = DeclAB
    /\ fs_before[lock_path] = Absent
    /\ lock_file.commits = << >>
    /\ Len(fs["schema.lock"].commits) = 8

\* The fields whose declared type is not the recorded one.
ChangedFields(declared, current) ==
    UNION {{<<name, field[1]>> :
               field \in {f \in MaterializedFields(current[name]) :
                              /\ name \in DOMAIN declared
                              /\ f \notin DeclaredFields(declared[name])}} :
              name \in DOMAIN current}

\* The declaration is the recorded state but for the type of one field.
OneTypeChanged(declared, current) ==
    /\ DOMAIN declared = DOMAIN current
    /\ \A name \in DOMAIN declared :
           /\ declared[name].description
                  = current[name].schema_view.description
           /\ DOMAIN declared[name].fields
                  = {f[1] : f \in MaterializedFields(current[name])}
    /\ Cardinality(ChangedFields(declared, current)) = 1

\* C7 (as claimed): when the declaration differs from the recorded state
\* in the type of one field only, the run produces one field UPDATE, of
\* that field, and then one schema UPDATE, of the schema holding it.
C7_SingleTypeChange ==
    (Produced /\ OneTypeChanged(decl, built_schemas)) =>
        \E changed \in ChangedFields(decl, built_schemas) :
            /\ Len(new_commits) = 2
            /\ IsFieldCommit(new_commits[1])
            /\ IsUpdate(new_commits[1])
            /\ CommitName(store, new_commits[1]) = changed[2]
            /\ IsSchemaCommit(new_commits[2])
            /\ IsUpdate(new_commits[2])
            /\ CommitName(store, new_commits[2]) = changed[1]

\* C8: when a sign request of the run fails the run fails with that
\* error, keeps none of the commits signed before it and leaves every
\* file as it was.
C8_SignFailurePersistsNothing ==
    sign_failure # None =>
        /\ pc = "failed"
        /\ error = "signing"
        /\ new_commits = << >>
        /\ fs = fs_before

\* The failure came after operations were signed, with a lock file on disk.
C8_Witness ==
    /\ sign_failure # None
    /\ pc = "failed"
    /\ Len(signed) >= 2
    /\ fs["schema.lock"].kind = "text"
    /\ Len(fs["schema.lock"].commits) > 0

\* C9 (as claimed): whatever happens to the run, the lock file on disk is
\* the file from before the run or the complete merged file.
C9_AtomicPersistence ==
    fs_before["schema.lock"].kind = "text" =>
        fs["schema.lock"] \in
            {fs_before["schema.lock"],
             merged_lock(lock_file.commits, new_commits)}

\* C10 (as claimed): two runs that read the same lock file, with the same
\* declaration, produce the same operations in the same order.
C10_Determinism ==
    (/\ Produced
     /\ prev # None
     /\ lock_file.commits = prev[1].lock_in)
    => Operations(new_commits) = Operations(prev[1].new_commits)

\* The schemas the relation fields of a declared schema name.
RelationTargets(declared, name) ==
    {declared[name].fields[f].schema[1] :
        f \in {g \in DOMAIN declared[name].fields :
                  declared[name].fields[g].schema # None}}

RECURSIVE ReachableSchemas(_, _, _)
\* The schemas reached from `found` along at most `steps` more relations.
ReachableSchemas(declared, found, steps) ==
    IF steps = 0
    THEN found
    ELSE ReachableSchemas(declared,
             found \cup UNION {RelationTargets(declared, n) :
                                  n \in found \cap DOMAIN declared},
             steps - 1)

\* The relations of the declaration form a cycle.
Cyclic(declared) ==
    \E name \in DOMAIN declared :
        name \in ReachableSchemas(declared, RelationTargets(declared, name),
                                  Cardinality(DOMAIN declared))

\* C11 (as claimed): when the declared relations form a cycle the run
\* fails and signs or produces no commit; when they do not, the commit of
\* a schema a relation targets precedes the commit of the schema relating
\* to it.
C11_CycleRejection ==
    /\ Cyclic(decl) =>
           /\ pc \in {"idle", "loaded", "materialized", "failed"}
           /\ signed = << >>
           /\ new_commits = << >>
    /\ (~Cyclic(decl) /\ Produced) =>
           \A i, j \in 1..Len(new_commits) :
               (/\ IsRelationCommit(new_commits[i])
                /\ IsSchemaCommit(new_commits[j])
                /\ CommitDocument(store, new_commits[j])
                       = DocumentId(store,
                             EntryByHash(store, EmbeddedView(new_commits[i]))))
               => j < i

\* The commits of the lock file `publish` has dealt with in the way `how`.
HandledAs(how) == {k \in 1..Len(handled) : handled[k].how = how}

\* C12: publish deals with the commits in file order, each once, by
\* skipping it when the node's next sequence number for the author's log
\* is above the commit's, and by submitting it otherwise; when it ends
\* well the published and skipped counts it reports add up to the number
\* of commits.
C12_PublishProtocol ==
    pc \in {"querying", "submitting", "done"} =>
        /\ Len(handled) = (IF pc = "done" THEN Len(lock_file.commits)
                           ELSE position - 1)
        /\ \A k \in 1..Len(handled) :
               /\ handled[k].commit = k
               /\ handled[k].how \in {"skipped", "submitted"}
               /\ handled[k].how = "skipped" <=>
                      /\ handled[k].expected # None
                      /\ handled[k].expected[1]
                             > lock_file.commits[k].entry.seq_num
               /\ handled[k].how = "submitted" =>
                      HasEntry(node, lock_file.commits[k].entry_hash)
        /\ skipped = Cardinality(HandledAs("skipped"))
        /\ pc = "done" =>
               /\ reported[1].skipped = Cardinality(HandledAs("skipped"))
               /\ reported[1].published = Cardinality(HandledAs("submitted"))
               /\ reported[1].published + reported[1].skipped
                      = Len(lock_file.commits)

\* A publish that ended well after skipping some commits and submitting
\* others.
C12_Witness ==
    /\ pc = "done"
    /\ reported # None
    /\ reported[1].skipped > 0
    /\ reported[1].published > 0
    /\ Len(handled) = Len(fs["schema.lock"].commits)

\* The field plan executed on its own, and the type it asks for.
ExecutedField == plan[1].fields[outcome[1].index]

DesiredType(field) == PandaFieldType(field.field_type.kind, None)

\* C13: a field plan without a current view signs one CREATE with name
\* and type; one whose current view has another type signs one UPDATE
\* with the current view id as previous and the type alone; one whose
\* current view has the type signs nothing and returns the current view
\* id.
C13_FieldDecision ==
    (outcome # None /\ outcome[1].index > 0 /\ outcome[1].ok) =>
        LET field == ExecutedField
            commits == outcome[1].executor.commits
        IN  /\ field.current = None =>
                   /\ Len(commits) = 1
                   /\ commits[1].operation
                          = Operation(SchemaFieldDefinition, "create", None,
                                [name |-> field.name,
                                 type |-> DesiredType(field)])
                   /\ outcome[1].value = commits[1].entry_hash
            /\ (/\ field.current # None
                /\ field.current[1].field_type # DesiredType(field)) =>
                   /\ Len(commits) = 1
                   /\ commits[1].operation.schema_id = SchemaFieldDefinition
                   /\ commits[1].operation.action = "update"
                   /\ commits[1].operation.previous
                          = Some(field.current[1].id)
                   /\ DOMAIN commits[1].operation.fields = {"type"}
                   /\ commits[1].operation.fields.type = DesiredType(field)
                   /\ outcome[1].value = commits[1].entry_hash
            /\ (/\ field.current # None
                /\ field.current[1].field_type = DesiredType(field)) =>
                   /\ commits = << >>
                   /\ outcome[1].executor.store = store
                   /\ outcome[1].executor.requests = 0
                   /\ outcome[1].value = field.current[1].id

\* A field whose current view has another type was executed with the key
\* that recorded it.
C13_Witness ==
    /\ outcome # None
    /\ outcome[1].index > 0
    /\ outcome[1].ok
    /\ ExecutedField.current # None
    /\ ExecutedField.current[1].field_type # DesiredType(ExecutedField)
    /\ Len(outcome[1].executor.commits) = 1
    /\ outcome[1].executor.commits[1].entry.seq_num = 2

\* The commits of the schema definition among `commits`.
SchemaCommits(commits) ==
    {k \in 1..Len(commits) : IsSchemaCommit(commits[k])}

\* The attributes of the schema the executed plan asks to change.
ChangedAttributes(self, schema_fields) ==
    (IF self.description # self.current[1].description
     THEN {"description"} ELSE {})
    \cup (IF self.current[1].fields # schema_fields
          THEN {"fields"} ELSE {})

\* C14 (as claimed): a schema plan with a current view decides after its
\* fields; when description or field view ids differ from the current
\* view it signs one UPDATE with the current view id as previous and the
\* changed attributes alone; when neither differs it signs nothing and
\* returns the current view id.
C14_SchemaDecision ==
    (/\ outcome # None
     /\ outcome[1].index = 0
     /\ outcome[1].ok
     /\ plan[1].current # None) =>
        LET commits == outcome[1].executor.commits
            changed == ChangedAttributes(plan[1], outcome[1].schema_fields)
        IN  /\ changed # {} =>
                   /\ SchemaCommits(commits) = {Len(commits)}
                   /\ commits[Len(commits)].operation.action = "update"
                   /\ commits[Len(commits)].operation.previous
                          = Some(plan[1].current[1].view_id)
                   /\ DOMAIN commits[Len(commits)].operation.fields = changed
                   /\ outcome[1].value = commits[Len(commits)].entry_hash
            /\ changed = {} =>
                   /\ SchemaCommits(commits) = {}
                   /\ outcome[1].value = plan[1].current[1].view_id

\* The fields of the plan that sign an operation.
Deciding(field) ==
    \/ field.current = None
    \/ field.current[1].field_type # DesiredType(field)

DecidingFields(self) ==
    {i \in 1..Len(self.fields) : Deciding(self.fields[i])}

\* The view id field i hands to the schema: the hash in the commit signed
\* for it, the commits of the fields being in the order of the fields.
HandedOn(self, commits, i) ==
    IF Deciding(self.fields[i])
    THEN commits[Cardinality({h \in DecidingFields(self) : h <= i})].entry_hash
    ELSE self.fields[i].current[1].id

\* C15: an execution appends one commit per CREATE or UPDATE decided on
\* and none otherwise; a node that signs hands on the hash stored in the
\* commit it appended, a node that does not hands on its current view id.
C15_CommitPerDecision ==
    (outcome # None /\ outcome[1].index = 0 /\ outcome[1].ok) =>
        LET commits == outcome[1].executor.commits
            fields == DecidingFields(plan[1])
            schema == IF \/ plan[1].current = None
                         \/ ChangedAttributes(plan[1],
                                outcome[1].schema_fields) # {}
                      THEN 1 ELSE 0
        IN  /\ Len(commits) = Cardinality(fields) + schema
            /\ outcome[1].executor.requests = Len(commits)
            /\ \A k \in 1..Len(commits) :
                   /\ commits[k].entry_hash = Hash(commits[k].entry)
                   /\ commits[k].entry.payload = commits[k].operation
                   /\ HasEntry(outcome[1].executor.store, commits[k].entry_hash)
                   /\ IsFieldCommit(commits[k]) <=> k <= Cardinality(fields)
            /\ Len(outcome[1].executor.store) = Len(store) + Len(commits)
            /\ \A i \in 1..Len(plan[1].fields) :
                   outcome[1].schema_fields[i] = HandedOn(plan[1], commits, i)
            /\ outcome[1].value
                   = (IF schema = 1
                      THEN commits[Len(commits)].entry_hash
                      ELSE plan[1].current[1].view_id)

\* A plan executed with a field that signs, a field that does not and a
\* schema UPDATE.
C15_Witness ==
    /\ outcome # None
    /\ outcome[1].index = 0
    /\ outcome[1].ok
    /\ Len(plan[1].fields) = 2
    /\ Cardinality(DecidingFields(plan[1])) = 1
    /\ plan[1].fields[2].current # None
    /\ Len(outcome[1].executor.commits) = 2

\* The run has ended with an error of validation, materialization or
\* signing.
RunFailed ==
    /\ pc = "failed"
    /\ error \in {"validation", "materialization", "signing"}

\* C16: the sign request that fails is the last one made and nothing is
\* signed after it; a run that failed in validation, materialization or
\* signing has kept no commit, has not written the lock file, and does
\* nothing more than end.
C16_FailureTerminal ==
    /\ [](sign_failure # None =>
              /\ RunFailed
              /\ error = "signing"
              /\ sign_requests = sign_failure[1] + 1
              /\ Len(signed) = sign_failure[1])
    /\ [](RunFailed =>
              /\ new_commits = << >>
              /\ fs = fs_before
              /\ error # "signing" => (signed = << >> /\ sign_requests = 0))
    /\ [][RunFailed =>
              /\ pc' = "idle"
              /\ fs' = fs
              /\ signed' = << >>
              /\ new_commits' = << >>]_vars

\* A run failed at a sign request that was neither its first nor its
\* last.
C16_Witness ==
    /\ RunFailed
    /\ sign_failure = Some(2)
    /\ sign_requests = 3
    /\ Len(lock_file.commits) = 0

\* The declaration holds a schema without fields.
EmptyFieldSet(declared) ==
    \E name \in DOMAIN declared : DOMAIN declared[name].fields = {}

\* C17: with a declared schema without fields the run fails before a
\* commit is replayed to the store or an operation signed, and writes no
\* file.
C17_ValidationFirst ==
    (pc # "idle" /\ EmptyFieldSet(decl)) =>
        /\ pc = "failed"
        /\ error \in {"lock_file", "validation"}
        /\ store = << >>
        /\ built_schemas = NoSchemas
        /\ signed = << >>
        /\ sign_requests = 0
        /\ new_commits = << >>
        /\ fs = fs_before

\* The run failed in validation with commits in the lock file it read.
C17_Witness ==
    /\ pc = "failed"
    /\ error = "validation"
    /\ EmptyFieldSet(decl)
    /\ Len(lock_file.commits) > 0
    /\ fs[lock_path].kind = "text"

\* A commit is of a schema that is no known system schema.
UnsupportedSchema(commits) ==
    \E i \in 1..Len(commits) :
        commits[i].operation.schema_id \notin SystemSchemas

\* An entry is in the lock file twice: the store rejects the second.
RepeatedEntry(commits) ==
    \E i, j \in 1..Len(commits) :
        i < j /\ commits[i].entry = commits[j].entry

\* The run does not get past materialization and changes nothing.
StoppedBeforePlanning ==
    /\ pc \in {"loaded", "failed"}
    /\ pc = "failed" => error \in {"validation", "materialization", "cancelled"}
    /\ built_schemas = NoSchemas
    /\ signed = << >>
    /\ sign_requests = 0
    /\ new_commits = << >>
    /\ fs = fs_before

\* C18: when the lock file read holds a commit of an unsupported system
\* schema, or an entry the store rejects, the run fails before anything
\* is planned or signed and leaves the lock file as it was.
C18_MaterializationAborts ==
    (/\ pc # "idle"
     /\ \/ UnsupportedSchema(lock_file.commits)
        \/ RepeatedEntry(lock_file.commits))
    => StoppedBeforePlanning

\* The run failed on the unsupported commit that follows three good ones.
C18_Witness ==
    /\ pc = "failed"
    /\ error = "materialization"
    /\ UnsupportedSchema(lock_file.commits)
    /\ ~UnsupportedSchema(SubSeq(lock_file.commits, 1, 3))
    /\ fs[lock_path] = UnsupportedLock

\* The schema definition documents on the store the commits replay to.
DefinitionDocuments(commits) ==
    get_documents_by_schema(replay(<< >>, commits, 1).store, SchemaDefinition)

\* Two schema definition documents have the same name.
SameNames(documents) ==
    \E d, e \in documents :
        d # e /\ SchemaView(d).name = SchemaView(e).name

\* C19: when the lock file replays to two schema definition documents of
\* the same name the run fails, produces no commit and writes no lock
\* file; otherwise the materialized map has one entry per schema
\* definition document.
C19_DuplicateNames ==
    /\ (/\ pc # "idle"
        /\ replay(<< >>, lock_file.commits, 1).ok
        /\ SameNames(DefinitionDocuments(lock_file.commits)))
       => StoppedBeforePlanning
    /\ pc = "materialized" =>
           /\ Cardinality(DOMAIN built_schemas)
                  = Cardinality(DefinitionDocuments(lock_file.commits))
           /\ \A d \in DefinitionDocuments(lock_file.commits) :
                  built_schemas[SchemaView(d).name].schema_view = SchemaView(d)

\* The run failed on a lock file with two documents named schema_a.
C19_Witness ==
    /\ pc = "failed"
    /\ error = "materialization"
    /\ replay(<< >>, lock_file.commits, 1).ok
    /\ Cardinality(DefinitionDocuments(lock_file.commits)) = 2
    /\ SameNames(DefinitionDocuments(lock_file.commits))

ListedBy(commits, j) ==
    {commits[k].operation.fields.name : k \in
        {k \in 1..Len(commits) :
            /\ IsSchemaCommit(commits[k])
            /\ IsCreate(commits[k])
            /\ commits[j].entry_hash
                   \in Range(commits[k].operation.fields.fields)}}

\* Commits i and j create the same schema, or the same field of a schema.
CreatedTwice(commits, i, j) ==
    /\ i < j
    /\ IsCreate(commits[i])
    /\ IsCreate(commits[j])
    /\ commits[i].operation.schema_id = commits[j].operation.schema_id
    /\ commits[i].operation.fields.name = commits[j].operation.fields.name
    /\ IsFieldCommit(commits[i]) =>
           ListedBy(commits, i) \cap ListedBy(commits, j) # {}

C22_SingleAuthor ==
    /\ Produced => KeysOf(new_commits) \subseteq {FileKey}
    /\ pc = "done" =>
           KeysOf(fs["schema.lock"].commits) \subseteq {FileKey}

\* C23: a run changes no file but the one at its lock path, and when it
\* ends well that file holds the commits read from it followed by the new
\* ones; with another lock path, schema.lock stays as it was.
C23_SamePath ==
    /\ \A p \in Paths : p # lock_path => fs[p] = fs_before[p]
    /\ pc = "done" =>
           fs[lock_path] = merged_lock(lock_file.commits, new_commits)

\* The whole plan was executed, with no error.
Cascaded ==
    /\ outcome # None
    /\ outcome[1].ok
    /\ outcome[1].index = 0

\* The positions of the UPDATEs whose previous is the view `view_id`.
UpdatesOf(commits, view_id) ==
    {j \in 1..Len(commits) :
        IsUpdate(commits[j]) /\ commits[j].operation.previous = Some(view_id)}

\* The fields of the plan that are relations.
RelationFields(self) ==
    {i \in 1..Len(self.fields) : self.fields[i].field_type.schema_plan # None}

\* Field `field` got one UPDATE, whose type embeds the view id of one of
\* the target's commits `changed`, signed before it.
CascadedTo(commits, field, changed) ==
    /\ Cardinality(UpdatesOf(commits, field.current[1].id)) = 1
    /\ \A j \in UpdatesOf(commits, field.current[1].id) :
           /\ IsFieldCommit(commits[j])
           /\ \E t \in changed :
                  /\ t < j
                  /\ commits[j].operation.fields.type =
                         PandaFieldType(field.field_type.kind,
                             Some(new_application(
                                 field.field_type.schema_plan[1].name,
                                 commits[t].entry_hash)))

Republishing ==
    /\ pc # "idle"
    /\ published # None
    /\ published[1].path = lock_path
    /\ published[1].file = fs[lock_path]
    /\ published[1].node = node

\* What `publish` does with the node's answer for commit i.
AnsweredAs(i) ==
    next_args_decision(
        lock_file.commits[i].entry,
        node_next_args(node, lock_file.commits[i].entry.public_key,
                       lock_file.commits[i].entry_hash))

Initialising == init_name # None

\* C26: `init` changes a file only when none of schema.toml, schema.lock
\* and secret.txt existed, writes on no file that existed, and when it
\* fails for an existing file or an invalid schema name it has created
\* neither secret.txt nor schema.toml.
C26_InitAllOrNothing ==
    Initialising =>
        /\ fs # fs_before =>
               \A i \in 1..Len(InitPaths) : ~exists(fs_before, InitPaths[i])
        /\ \A i \in 1..Len(InitPaths) :
               exists(fs_before, InitPaths[i]) =>
                   fs[InitPaths[i]] = fs_before[InitPaths[i]]
        /\ (pc = "failed" /\ error \in {"exists", "invalid_name"}) =>
               /\ fs["secret.txt"] = fs_before["secret.txt"]
               /\ fs["schema.toml"] = fs_before["schema.toml"]

====
